---- MODULE Spec2Model ----
(***************************************************************************)
(* Model of ckanutils: the `update` command of datastorer.py and the CKAN  *)
(* client methods of api.py it drives (get_hash, insert_records,           *)
(* delete_table, create_table, create_resource, fetch_resource).           *)
(*                                                                         *)
(* A file is a sequence of small integers; each element is at once one     *)
(* byte of the download (for fingerprinting) and one record of the parsed  *)
(* table (for ingestion).  None is 0, as in Python every digest string is  *)
(* truthy and None is falsy.                                               *)
(***************************************************************************)
EXTENDS Integers, Sequences, FiniteSets, TLC

\* ---------------------------------------------------------------- bounds
MaxVal == 1          \* records / bytes are 0..MaxVal
MaxVer == 2          \* versions of a resource's file are 1..MaxVer
MaxChunk == 1        \* row chunk sizes are 0..MaxChunk
MaxInsLen == 3       \* longest record sequence given to insert_records alone
MaxInsChunk == 2     \* chunk sizes given to insert_records alone are 0..MaxInsChunk
MaxTabCalls == 2     \* calls of delete_table and create_table in a row
MaxBytes == 3        \* longest file given to hash_file alone
MaxRead == 2         \* read sizes given to hash_file alone are 1..MaxRead

CHUNKSIZE_BYTES == 1048576

None == 0
NoStop == -1         \* stop=None of insert_records

Vals == 0..MaxVal
Resources == {"r1"}   \* the resources update is run on
OtherResource == "r0" \* a resource synchronized before, never run here
Procs == {1, 2}

SeqsUpTo(S, n) == UNION {[1..k -> S] : k \in 0..n}

\* the file a resource holds in its version v: v records, all versions differ
File(v) == [j \in 1..v |-> (v + j) % (MaxVal + 1)]

Min(a, b) == IF a < b THEN a ELSE b

\* ------------------------------------------------------- pure functions

\* records[start:stop] of Python, for start >= 0 and stop >= 0 or None
Slice(s, start, stop) ==
  LET hi == IF stop = NoStop THEN Len(s) ELSE Min(stop, Len(s))
  IN  IF start >= hi THEN <<>> ELSE SubSeq(s, start + 1, hi)

RECURSIVE Chunks(_, _)
Chunks(s, k) ==
  IF s = <<>> THEN <<>>
  ELSE IF Len(s) <= k THEN <<s>>
  ELSE <<SubSeq(s, 1, k)>> \o Chunks(SubSeq(s, k + 1, Len(s)), k)

\* utils.chunk(records, chunksize, start=, stop=): chunks of chunksize
\* records, none of them empty; with chunksize 0 the whole range as one chunk
chunk(records, chunksize, start, stop) ==
  LET sub == Slice(records, start, stop)
  IN  IF chunksize = 0 THEN <<sub>> ELSE Chunks(sub, chunksize)

\* the incremental digest accumulator: one update per byte read
RECURSIVE digest_update(_, _)
digest_update(acc, bytes) ==
  IF bytes = <<>> THEN acc
  ELSE digest_update(acc * (MaxVal + 2) + bytes[1] + 1, Tail(bytes))

\* a digest that closes a block after every read
RECURSIVE digest_chunks_per_read(_, _)
digest_chunks_per_read(acc, cs) ==
  IF cs = <<>> THEN acc
  ELSE digest_chunks_per_read(digest_update(acc, cs[1]) * (MaxVal + 2), Tail(cs))

\* the digest over the reads of the file, in order
RECURSIVE digest_chunks(_, _)
digest_chunks(acc, cs) ==
  IF cs = <<>> THEN acc
  ELSE digest_chunks(digest_update(acc, cs[1]), Tail(cs))

\* tup.hash_file(filepath, chunksize=): streamed reads of chunksize bytes
hash_file(bytes, chunksize) ==
  digest_chunks(1, Chunks(bytes, Min(chunksize, Len(bytes) + 1)))

\* the primary key of a record
Key(rec) == rec % 2

RECURSIVE upsert_row(_, _)
upsert_row(rows, rec) ==
  IF rows = <<>> THEN <<rec>>
  ELSE IF Key(rows[1]) = Key(rec) THEN <<rec>> \o Tail(rows)
  ELSE <<rows[1]>> \o upsert_row(Tail(rows), rec)

RECURSIVE upsert_rows(_, _)
upsert_rows(rows, recs) ==
  IF recs = <<>> THEN rows
  ELSE upsert_rows(upsert_row(rows, recs[1]), Tail(recs))

\* the remote action appending the records whatever the method
datastore_upsert_append(rows, records, method) == rows \o records

\* the remote datastore_upsert action on the rows of an existing table
datastore_upsert(rows, records, method) ==
  IF method = "upsert" THEN upsert_rows(rows, records) ELSE rows \o records

\* ------------------------------------------------------------- api.CKAN

\* the outcome of a call: how it ended and the value it returned
Return(v) == [exc |-> "none", item |-> "none", value |-> v]
Raise(e, i) == [exc |-> e, item |-> i, value |-> None]

\* CKAN.__init__: hash_table_pack and hash_table_id as read from the remote
\* (TRUE stands for a value that is not None)
ckan_init(package_exists, resource_exists) ==
  [hash_table_pack |-> package_exists,
   hash_table_id   |-> package_exists /\ resource_exists]

\* the remote datastore_search with filters {datastore_id: resource_id}, limit 1
datastore_search(rows, resource_id) ==
  LET hits == SelectSeq(rows, LAMBDA row : row.datastore_id = resource_id)
  IN  IF hits = <<>> THEN <<>> ELSE <<hits[1]>>

\* get_hash with the IndexError of an empty result handled like NotFound
get_hash_absent_raises(ckan, table_exists, rows, resource_id) ==
  IF ~ckan.hash_table_pack THEN Raise("NotFound", "package")
  ELSE IF ~ckan.hash_table_id THEN Raise("NotFound", "resource")
  ELSE LET records == datastore_search(rows, resource_id)
       IN  IF ~table_exists \/ records = <<>> THEN Raise("NotFound", "datastore")
           ELSE Return(records[1].hash)

\* CKAN.get_hash.  ckan holds the instance's fields, table_exists says whether
\* the hash table is in the datastore, rows are its rows.
get_hash(ckan, table_exists, rows, resource_id) ==
  IF ~ckan.hash_table_pack THEN Raise("NotFound", "package")
  ELSE IF ~ckan.hash_table_id THEN Raise("NotFound", "resource")
  ELSE IF ~table_exists THEN Raise("NotFound", "datastore")
  ELSE LET records == datastore_search(rows, resource_id)
       IN  IF records = <<>> THEN Return(None) ELSE Return(records[1].hash)

\* CKAN.create_resource: which of url, filepath, fileobj the caller passes.
\* With neither url nor filepath, path is None and p.basename(path) raises.
create_resource(url, filepath, fileobj) ==
  IF ~(url \/ filepath \/ fileobj) THEN Raise("TypeError", "none")
  ELSE IF ~(url \/ filepath) THEN Raise("AttributeError", "none")
  ELSE Return(1)

\* create_table turning every ValidationError into NotFound
create_table_all_not_found(remote) ==
  IF remote = "ok" THEN Return(1) ELSE Raise("NotFound", "none")

\* CKAN.create_table, on the outcome of the remote datastore_create.  The
\* ValidationError raised again carries the error the remote gave.
create_table(remote) ==
  IF remote = "ok" THEN Return(1)
  ELSE IF remote = "NotFoundResource" THEN Raise("NotFound", "none")
  ELSE Raise("ValidationError", remote)

\* delete_table with the read-only ValidationError raised again
delete_table_read_only_raises(remote) ==
  IF remote = "ok" THEN Return(1)
  ELSE IF remote = "NotFound" THEN Return(None)
  ELSE Raise("ValidationError", remote)

\* CKAN.delete_table, on the outcome of the remote datastore_delete.  A
\* ValidationError that is not the read-only one leaves result unbound.
delete_table(remote) ==
  IF remote = "ok" THEN Return(1)
  ELSE IF remote = "NotFound" THEN Return(None)
  ELSE IF remote = "ReadOnly" THEN Return(None)
  ELSE Raise("UnboundLocalError", "none")

\* CKAN.insert_records: count before the first chunk
insert_count0 == 1

\* the except clause with the Broken pipe branch going on to the next chunk
insert_except_continue(st, kind) ==
  IF kind = "BrokenPipe" THEN [st EXCEPT !.diag = TRUE]
  ELSE [st EXCEPT !.out = "raise"]

\* the except clause with the else branch passing instead of raising
insert_except_swallow(st, kind) ==
  IF kind = "BrokenPipe"
  THEN [st EXCEPT !.out = "return", !.ret = 0, !.diag = TRUE]
  ELSE st

\* the except clause undoing the rows written by the chunks before
insert_except_rollback(st, kind) ==
  IF kind = "BrokenPipe"
  THEN [st EXCEPT !.out = "return", !.ret = 0, !.diag = TRUE, !.rows = <<>>]
  ELSE [st EXCEPT !.out = "raise", !.rows = <<>>]

\* the except clause of the chunk write: st is the loop's state
insert_except(st, kind) ==
  IF kind = "BrokenPipe"
  THEN [st EXCEPT !.out = "return", !.ret = 0, !.diag = TRUE]
  ELSE [st EXCEPT !.out = "raise"]

\* insert_records returning the number of rows written, not count
insert_return_rows(st) == [st EXCEPT !.out = "return", !.ret = st.count - insert_count0]

\* the value insert_records returns after the last chunk
insert_return(st) == [st EXCEPT !.out = "return", !.ret = st.count]

\* the for loop of insert_records from chunk i on.  The write of chunk failAt
\* fails with failKind (0: no write fails); a failed write changes no row.
RECURSIVE insert_loop(_, _, _, _, _, _)
insert_loop(chunks, i, st, method, failAt, failKind) ==
  IF st.out # "loop" THEN st
  ELSE IF i > Len(chunks) THEN insert_return(st)
  ELSE LET called == [st EXCEPT !.calls = @ + 1]
           next == IF i = failAt
                   THEN insert_except(called, failKind)
                   ELSE [called EXCEPT
                           !.rows = datastore_upsert(@, chunks[i], method),
                           !.sent = Append(@, chunks[i]),
                           !.count = @ + Len(chunks[i])]
       IN  insert_loop(chunks, i + 1, next, method, failAt, failKind)

\* insert_records leaving its loop after the first chunk
insert_records_first_chunk(rows, records, chunksize, start, stop, method, failAt, failKind) ==
  LET chunks == chunk(records, chunksize, start, stop)
  IN  insert_loop(SubSeq(chunks, 1, Min(1, Len(chunks))), 1,
                  [out |-> "loop", ret |-> 0, diag |-> FALSE,
                   count |-> insert_count0, rows |-> rows, calls |-> 0,
                   sent |-> <<>>],
                  method, failAt, failKind)

\* CKAN.insert_records(resource_id, records, chunksize=, start=, stop=, method=)
\* on a table holding rows
insert_records(rows, records, chunksize, start, stop, method, failAt, failKind) ==
  insert_loop(chunk(records, chunksize, start, stop), 1,
              [out |-> "loop", ret |-> 0, diag |-> FALSE, count |-> insert_count0,
               rows |-> rows, calls |-> 0, sent |-> <<>>],
              method, failAt, failKind)

\* a datastore table: absent, or present with its rows
NoTable == [exists |-> FALSE, rows |-> <<>>]
Table(rows) == [exists |-> TRUE, rows |-> rows]

\* the insert method update_datastore selects from the primary key
sync_method(primary_key) == IF primary_key THEN "upsert" ELSE "insert"

\* CKAN.update_datastore(resource_id, filepath, **kwargs) on the table tbl:
\* without a primary key the table is deleted first; then the table is
\* created and the records are inserted in chunks.  env holds what the remote
\* answers: del, create and the failing chunk write.
update_datastore(tbl, records, primary_key, chunksize, env) ==
  LET del == IF primary_key THEN Return(None) ELSE delete_table(env.del)
      afterdel == IF ~primary_key /\ env.del = "ok" THEN NoTable ELSE tbl
      cre == create_table(env.create)
      aftercre == IF afterdel.exists THEN afterdel ELSE Table(<<>>)
      res == insert_records(aftercre.rows, records, chunksize, 0, NoStop,
                            sync_method(primary_key), env.failAt, env.failKind)
  IN  IF del.exc # "none"
      THEN [exc |-> del.exc, ret |-> 0, table |-> tbl, calls |-> 0,
            diag |-> FALSE, inserted |-> FALSE]
      ELSE IF cre.exc # "none"
      THEN [exc |-> cre.exc, ret |-> 0, table |-> afterdel, calls |-> 0,
            diag |-> FALSE, inserted |-> FALSE]
      ELSE [exc |-> IF res.out = "raise" THEN "ConnectionError" ELSE "none",
            ret |-> res.ret, table |-> Table(res.rows), calls |-> res.calls,
            diag |-> res.diag, inserted |-> TRUE]

\* the entry written with method insert: a new row on every call
update_hash_table_append(rows, resource_id, resource_hash) ==
  Append(rows, [datastore_id |-> resource_id, hash |-> resource_hash])

\* the entry written only when the resource has none yet
update_hash_table_first_wins(rows, resource_id, resource_hash) ==
  IF \E i \in 1..Len(rows) : rows[i].datastore_id = resource_id THEN rows
  ELSE Append(rows, [datastore_id |-> resource_id, hash |-> resource_hash])

\* CKAN.update_hash_table(resource_id, resource_hash): upsert of the entry
RECURSIVE update_hash_table(_, _, _)
update_hash_table(rows, resource_id, resource_hash) ==
  IF rows = <<>> THEN <<[datastore_id |-> resource_id, hash |-> resource_hash]>>
  ELSE IF rows[1].datastore_id = resource_id
  THEN <<[datastore_id |-> resource_id, hash |-> resource_hash]>> \o Tail(rows)
  ELSE <<rows[1]>> \o update_hash_table(Tail(rows), resource_id, resource_hash)

\* ---------------------------------------------------- datastorer.update

\* changed computed without the stored hash
is_changed_always(old_hash, new_hash) == TRUE

\* changed computed with the comparison inverted
is_changed_inverted(old_hash, new_hash) ==
  IF old_hash # None THEN new_hash = old_hash ELSE TRUE

\* changed = new_hash != old_hash if old_hash else True
is_changed(old_hash, new_hash) ==
  IF old_hash # None THEN new_hash # old_hash ELSE TRUE

\* the skip test without the force flag
skips_update_unforced(changed, force) == ~changed

\* if not (changed or force): sys.exit(0)
skips_update(changed, force) == ~(changed \/ force)

\* the record test without the success of the synchronization
records_hash_unsynced(updated, changed) == changed

\* the record test taken on the unchanged branch
records_hash_unchanged(updated, changed) == updated # 0 /\ ~changed

\* if updated and changed: ckan.update_hash_table(...)
records_hash(updated, changed) == updated # 0 /\ changed

\* elif not updated: ... sys.exit(1)
not_updated(updated, changed) == ~records_hash(updated, changed) /\ updated = 0

\* get_message(changed, force)
get_message(changed, force) ==
  IF ~(changed \/ force) THEN "No new data found. Not updating datastore."
  ELSE IF ~changed /\ force
  THEN "No new data found, but update forced. Updating datastore..."
  ELSE "New data found. Updating datastore..."

\* the first step of the NotFound handler, by the missing item
after_not_found(item) ==
  IF item = "package" THEN "package"
  ELSE IF item = "resource" THEN "resource"
  ELSE "table"

\* ---------------------------------------------------------------- state

VARIABLES
  filestore,      \* resource id -> version of its file, 0: no such resource
  hash_package,   \* the hash table package exists
  hash_resource,  \* the package holds the hash table resource
  hash_table,     \* the hash table is in the datastore
  ledger,         \* the rows of the hash table
  tables,         \* resource id -> its datastore table
  files,          \* process -> the local files its run created and not removed
  run,            \* process -> the locals of its run of update
  prev,           \* process -> summary of its previous run
  ins,            \* a call of insert_records outside update, and its result
  tab,            \* calls of delete_table and create_table outside update
  fpr,            \* calls of hash_file outside update, and their results
  opt             \* the options of a call of update and the chunk sizes it uses

vars == <<filestore, hash_package, hash_resource, hash_table, ledger, tables,
          files, run, prev, ins, tab, fpr, opt>>

remote == <<filestore, hash_package, hash_resource, hash_table, ledger, tables>>

IdleRun ==
  [pc |-> "idle", resource_id |-> "r1", force |-> FALSE, primary_key |-> FALSE,
   chunksize_rows |-> 0, ver |-> 0, filepath |-> FALSE,
   ckan |-> ckan_init(FALSE, FALSE), old_hash |-> None, new_hash |-> None,
   changed |-> FALSE, updated |-> 0, outcome |-> "running",
   \* history of the run
   first |-> "none", second |-> "none", nlookup |-> 0, nprov |-> 0, nsync |-> 0, nrec |-> 0,
   nget |-> 0, prov |-> <<>>, leftat |-> "none",
   nwrites |-> 0, diag |-> FALSE, envfail |-> FALSE, syncexc |-> "none",
   failAt |-> 0, failKind |-> "Other",
   ledger0 |-> <<>>, table0 |-> NoTable]

\* the previous run: whether it ended in success, on which resource and file
NoPrev == [success |-> FALSE, resource_id |-> "r1", ver |-> 0, ledger |-> <<>>]

\* no call of insert_records outside update
NoResult == [out |-> "loop", ret |-> 0, diag |-> FALSE, count |-> 0,
             rows |-> <<>>, calls |-> 0, sent |-> <<>>]
NoIns == [state |-> "none", records |-> <<>>, chunksize |-> 0, start |-> 0,
          stop |-> NoStop, method |-> "insert", rows |-> <<>>, failAt |-> 0,
          failKind |-> "Other", result |-> NoResult]

\* no call of delete_table or create_table outside update
NoTab == [state |-> "none", valid |-> TRUE, resource |-> TRUE, readonly |-> FALSE,
          table |-> NoTable, op |-> "none", force |-> TRUE, remote |-> "none",
          result |-> Return(None), before |-> NoTable, ncalls |-> 0]

\* no call of hash_file outside update
NoFpr == [state |-> "none", bytes |-> <<>>, other |-> <<>>, size1 |-> 1,
          size2 |-> 1, h1 |-> 0, h2 |-> 0, h3 |-> 0]

\* no call of update looked at for its options
NoOpt == [state |-> "none", kwargs |-> <<>>, bytes |-> <<>>, write_size |-> 0,
          hash_size |-> 0, new_hash |-> 0]

\* the hash table row of a resource synchronized before
OtherEntry ==
  [datastore_id |-> OtherResource, hash |-> hash_file(File(1), CHUNKSIZE_BYTES)]

Init ==
  /\ filestore \in [Resources -> 0..MaxVer]
  /\ hash_package \in BOOLEAN
  /\ hash_resource \in BOOLEAN
  /\ hash_table \in BOOLEAN
  /\ hash_resource => hash_package
  /\ hash_table => hash_resource
  /\ ledger \in {<<>>} \cup {<<OtherEntry>> : x \in {y \in {1} : hash_table}}
  /\ tables = [r \in Resources |-> NoTable]
  /\ files = [p \in Procs |-> {}]
  /\ run = [p \in Procs |-> IdleRun]
  /\ prev = [p \in Procs |-> NoPrev]
  /\ ins = NoIns
  /\ tab = NoTab
  /\ fpr = NoFpr
  /\ opt = NoOpt

\* sys.exit(code) or an exception leaving update: the finally clause is next
Leave(r, how) == [r EXCEPT !.outcome = how, !.leftat = r.pc, !.pc = "finally"]

\* the except clauses of the fetch phase raising the error again
FetchFailed_raises(r) == Leave([r EXCEPT !.filepath = FALSE], "raised")

\* the except clauses of the fetch phase: filepath = None; sys.exit(1)
FetchFailed(r) == Leave([r EXCEPT !.filepath = FALSE], "exit1")

\* between runs the remote content of a resource changes, or the resource is
\* removed (a run reads the content once, in fetch_resource)
Publish ==
  /\ \A p \in Procs : run[p].pc \in {"idle", "done"}
  /\ \E rid \in Resources : \E v \in 0..MaxVer :
       /\ v # filestore[rid]
       /\ filestore' = [filestore EXCEPT ![rid] = v]
  /\ UNCHANGED <<hash_package, hash_resource, hash_table, ledger, tables,
                 files, run, prev, ins, tab, fpr, opt>>

\* update(resource_id, force, **kwargs) is called
Start(p) ==
  /\ run[p].pc \in {"idle", "done"}
  /\ \E rid \in Resources, force \in BOOLEAN, pk \in BOOLEAN, c \in 0..MaxChunk :
       run' = [run EXCEPT ![p] =
                 [IdleRun EXCEPT !.pc = "init", !.resource_id = rid,
                                 !.force = force, !.primary_key = pk,
                                 !.chunksize_rows = c,
                                 !.ledger0 = ledger, !.table0 = tables[rid]]]
  /\ prev' = [prev EXCEPT ![p] =
                IF run[p].pc = "done" /\ run[p].outcome \in {"exit0", "returned"}
                THEN [success |-> TRUE, resource_id |-> run[p].resource_id,
                      ver |-> run[p].ver, ledger |-> ledger]
                ELSE NoPrev]
  /\ files' = [files EXCEPT ![p] = {}]
  /\ UNCHANGED <<remote, ins, tab, fpr, opt>>

\* ckan = api.CKAN(**ckan_kwargs)
CkanInit(p) ==
  /\ run[p].pc = "init"
  /\ \E ok \in BOOLEAN :
       run' = [run EXCEPT ![p] =
                 IF ok
                 THEN [@ EXCEPT !.ckan = ckan_init(hash_package, hash_resource),
                                !.pc = "fetch"]
                 ELSE FetchFailed([@ EXCEPT !.envfail = TRUE])]
  /\ UNCHANGED <<remote, files, prev, ins, tab, fpr, opt>>

\* r = ckan.fetch_resource(resource_id): resource_show (NotFound before any
\* download), requests.get, and the write of the download to the temporary
\* file of fetch_resource itself.  fetch_resource returns the response
\* together with that file's path; update goes on with the response.
FetchResource(p) ==
  /\ run[p].pc = "fetch"
  /\ \E net \in {"ok", "get_failed", "write_failed"} :
       LET found == filestore[run[p].resource_id] # 0
           wrote == found /\ net # "get_failed"
       IN  /\ run' = [run EXCEPT ![p] =
                        IF found /\ net = "ok"
                        THEN [@ EXCEPT !.ver = filestore[run[p].resource_id],
                                       !.nget = 1, !.pc = "tempfile"]
                        ELSE FetchFailed([@ EXCEPT !.envfail = found,
                                                   !.nget = IF found THEN 1 ELSE 0])]
           /\ files' = [files EXCEPT ![p] = IF wrote THEN @ \cup {"fetch"} ELSE @]
  /\ UNCHANGED <<remote, prev, ins, tab, fpr, opt>>

\* filepath = NamedTemporaryFile(delete=False).name
TempFile(p) ==
  /\ run[p].pc = "tempfile"
  /\ run' = [run EXCEPT ![p] = [@ EXCEPT !.filepath = TRUE, !.pc = "write"]]
  /\ files' = [files EXCEPT ![p] = @ \cup {"tmp"}]
  /\ UNCHANGED <<remote, prev, ins, tab, fpr, opt>>

\* tio.write_file(filepath, r.iter_content, **write_kwargs)
WriteFile(p) ==
  /\ run[p].pc = "write"
  /\ \E ok \in BOOLEAN :
       run' = [run EXCEPT ![p] =
                 IF ok THEN [@ EXCEPT !.pc = "lookup"]
                 ELSE FetchFailed([@ EXCEPT !.envfail = TRUE])]
  /\ UNCHANGED <<remote, files, prev, ins, tab, fpr, opt>>

\* what a lookup is remembered as
LookupKind(res) ==
  IF res.exc = "NotFound" THEN res.item
  ELSE IF res.value = None THEN "absent" ELSE "hash"

\* old_hash = ckan.get_hash(resource_id), the first lookup
Lookup(p) ==
  /\ run[p].pc = "lookup"
  /\ \E ok \in BOOLEAN :
       LET r == run[p]
           res == get_hash(r.ckan, hash_table, ledger, r.resource_id)
           looked == [r EXCEPT !.nlookup = @ + 1]
       IN  run' = [run EXCEPT ![p] =
             IF ~ok
             THEN Leave([looked EXCEPT !.envfail = TRUE, !.first = "error"], "raised")
             ELSE IF res.exc = "NotFound"
             THEN [looked EXCEPT !.first = LookupKind(res), !.nprov = @ + 1,
                                 !.pc = after_not_found(res.item)]
             ELSE [looked EXCEPT !.first = LookupKind(res),
                                 !.old_hash = res.value, !.pc = "hash"]]
  /\ UNCHANGED <<remote, files, prev, ins, tab, fpr, opt>>

\* ckan.organization_list(...); ckan.hash_table_pack = ckan.package_create(...)
ProvisionPackage(p) ==
  /\ run[p].pc = "package"
  /\ \E ok \in BOOLEAN :
       /\ run' = [run EXCEPT ![p] =
                    IF ok
                    THEN [@ EXCEPT !.ckan.hash_table_pack = TRUE,
                                   !.prov = Append(@, "package"), !.pc = "resource"]
                    ELSE Leave([@ EXCEPT !.envfail = TRUE], "raised")]
       /\ hash_package' = (hash_package \/ ok)
  /\ UNCHANGED <<filestore, hash_resource, hash_table, ledger, tables,
                 files, prev, ins, tab, fpr, opt>>

\* resource = ckan.create_resource(table, fileobj=..., name=...)
\* ckan.hash_table_id = resource['id']
ProvisionResource(p) ==
  /\ run[p].pc = "resource"
  /\ \E ok \in BOOLEAN :
       LET res == create_resource(FALSE, FALSE, TRUE)
           created == res.exc = "none" /\ ok
       IN  /\ run' = [run EXCEPT ![p] =
                        IF res.exc # "none" THEN Leave(@, "raised")
                        ELSE IF ok
                        THEN [@ EXCEPT !.ckan.hash_table_id = TRUE,
                                       !.prov = Append(@, "resource"), !.pc = "table"]
                        ELSE Leave([@ EXCEPT !.envfail = TRUE], "raised")]
           /\ hash_resource' = (hash_resource \/ created)
  /\ UNCHANGED <<filestore, hash_package, hash_table, ledger, tables,
                 files, prev, ins, tab, fpr, opt>>

\* ckan.create_hash_table(verbose): a no-op on a hash table that exists
ProvisionTable(p) ==
  /\ run[p].pc = "table"
  /\ \E ok \in BOOLEAN :
       /\ run' = [run EXCEPT ![p] =
                    IF ok THEN [@ EXCEPT !.prov = Append(@, "table"), !.pc = "lookup2"]
                    ELSE Leave([@ EXCEPT !.envfail = TRUE], "raised")]
       /\ hash_table' = (hash_table \/ ok)
  /\ UNCHANGED <<filestore, hash_package, hash_resource, ledger, tables,
                 files, prev, ins, tab, fpr, opt>>

\* old_hash = ckan.get_hash(resource_id), the lookup after provisioning
Lookup2(p) ==
  /\ run[p].pc = "lookup2"
  /\ \E ok \in BOOLEAN :
       LET r == run[p]
           res == get_hash(r.ckan, hash_table, ledger, r.resource_id)
           looked == [r EXCEPT !.nlookup = @ + 1]
       IN  run' = [run EXCEPT ![p] =
             IF ~ok THEN Leave([looked EXCEPT !.envfail = TRUE], "raised")
             ELSE IF res.exc # "none"
             THEN Leave([looked EXCEPT !.second = LookupKind(res)], "raised")
             ELSE [looked EXCEPT !.second = LookupKind(res),
                                 !.old_hash = res.value, !.pc = "hash"]]
  /\ UNCHANGED <<remote, files, prev, ins, tab, fpr, opt>>

\* new_hash = tup.hash_file(filepath, **hash_kwargs); changed = ...;
\* if not (changed or force): sys.exit(0)
Hash(p) ==
  /\ run[p].pc = "hash"
  /\ LET r == run[p]
         new_hash == hash_file(File(r.ver), CHUNKSIZE_BYTES)
         changed == is_changed(r.old_hash, new_hash)
         hashed == [r EXCEPT !.new_hash = new_hash, !.changed = changed]
     IN  run' = [run EXCEPT ![p] =
                   IF skips_update(changed, r.force) THEN Leave(hashed, "exit0")
                   ELSE [hashed EXCEPT !.pc = "sync"]]
  /\ UNCHANGED <<remote, files, prev, ins, tab, fpr, opt>>

\* what the remote may answer during one table synchronization.  update
\* builds its client without the force option, so the client's force is True
\* and the delete of a read-only table is not refused.
SyncEnvs(tbl, records, primary_key, chunksize) ==
  {env \in [del : {"ok", "NotFound", "Invalid"},
            create : {"ok", "NotFoundResource", "Invalid"},
            failAt : 0..Len(chunk(records, chunksize, 0, NoStop)),
            failKind : {"BrokenPipe", "Other"}] :
     /\ primary_key => env.del = "ok"
     /\ ~primary_key => (env.del = "NotFound" <=> ~tbl.exists)
     /\ env.failAt = 0 => env.failKind = "Other"}

\* updated = ckan.update_datastore(resource_id, filepath, **kwargs)
Sync(p) ==
  /\ run[p].pc = "sync"
  /\ LET r == run[p]
         tbl == tables[r.resource_id]
     IN  \E env \in SyncEnvs(tbl, File(r.ver), r.primary_key, r.chunksize_rows) :
           LET res == update_datastore(tbl, File(r.ver), r.primary_key,
                                       r.chunksize_rows, env)
               synced == [r EXCEPT !.nsync = @ + 1, !.nwrites = @ + res.calls,
                                   !.diag = res.diag, !.syncexc = res.exc,
                                   !.failAt = IF res.inserted THEN env.failAt ELSE 0,
                                   !.failKind = IF res.inserted THEN env.failKind
                                                ELSE "Other",
                                   !.envfail = (env.del = "Invalid"
                                                \/ env.create # "ok"
                                                \/ env.failAt # 0)]
           IN  /\ tables' = [tables EXCEPT ![r.resource_id] = res.table]
               /\ run' = [run EXCEPT ![p] =
                            IF res.exc # "none" THEN Leave(synced, "raised")
                            ELSE [synced EXCEPT !.updated = res.ret, !.pc = "record"]]
  /\ UNCHANGED <<filestore, hash_package, hash_resource, hash_table, ledger,
                 files, prev, ins, tab, fpr, opt>>

\* if updated and changed: ckan.update_hash_table(resource_id, new_hash, verbose)
\* elif not updated: ... sys.exit(1)
Record(p) ==
  /\ run[p].pc = "record"
  /\ \E ok \in BOOLEAN :
       LET r == run[p]
           call == records_hash(r.updated, r.changed)
       IN  /\ ok \/ call
           /\ run' = [run EXCEPT ![p] =
                        IF call /\ ok THEN Leave([r EXCEPT !.nrec = @ + 1], "returned")
                        ELSE IF call
                        THEN Leave([r EXCEPT !.nrec = @ + 1, !.envfail = TRUE], "raised")
                        ELSE IF not_updated(r.updated, r.changed) THEN Leave(r, "exit1")
                        ELSE Leave(r, "returned")]
           /\ ledger' = IF call /\ ok
                        THEN update_hash_table(ledger, r.resource_id, r.new_hash)
                        ELSE ledger
  /\ UNCHANGED <<filestore, hash_package, hash_resource, hash_table, tables,
                 files, prev, ins, tab, fpr, opt>>

\* finally: unlink(filepath) if filepath else None
Finally(p) ==
  /\ run[p].pc = "finally"
  /\ run' = [run EXCEPT ![p] = [@ EXCEPT !.pc = "done"]]
  /\ files' = [files EXCEPT ![p] = IF run[p].filepath THEN @ \ {"tmp"} ELSE @]
  /\ UNCHANGED <<remote, prev, ins, tab, fpr, opt>>

Step(p) ==
  \/ Start(p)
  \/ CkanInit(p)
  \/ FetchResource(p)
  \/ TempFile(p)
  \/ WriteFile(p)
  \/ Lookup(p)
  \/ ProvisionPackage(p)
  \/ ProvisionResource(p)
  \/ ProvisionTable(p)
  \/ Lookup2(p)
  \/ Hash(p)
  \/ Sync(p)
  \/ Record(p)
  \/ Finally(p)

\* runs of update one after the other
Next == Publish \/ Step(1)

Spec == Init /\ [][Next]_vars

\* runs of update one after the other, the command being run again and again
\* and every run taking its steps to its end
SpecLive == Init /\ [][Next]_vars /\ WF_vars(Step(1))

\* ------------------------------------------------ two runs at a time

\* the content of a resource changes while a run is under way
Republish ==
  /\ \E p \in Procs : run[p].pc \notin {"idle", "done"}
  /\ \E rid \in Resources, v \in 1..MaxVer :
       /\ filestore[rid] \notin {0, v}
       /\ filestore' = [filestore EXCEPT ![rid] = v]
  /\ UNCHANGED <<hash_package, hash_resource, hash_table, ledger, tables,
                 files, run, prev, ins, tab, fpr, opt>>

\* update(resource_id, force) is called once by the process, without a
\* primary key and with the records written as one chunk
StartConc(p) ==
  /\ run[p].pc = "idle"
  /\ Start(p)
  /\ ~run'[p].primary_key
  /\ run'[p].chunksize_rows = 0

\* the steps of one invocation of the command
StepConc(p) ==
  \/ StartConc(p)
  \/ CkanInit(p)
  \/ FetchResource(p)
  \/ TempFile(p)
  \/ WriteFile(p)
  \/ Lookup(p)
  \/ ProvisionPackage(p)
  \/ ProvisionResource(p)
  \/ ProvisionTable(p)
  \/ Lookup2(p)
  \/ Hash(p)
  \/ Sync(p)
  \/ Record(p)
  \/ Finally(p)

\* two invocations of the command, their steps interleaved
NextConc == Republish \/ StepConc(1) \/ StepConc(2)

SpecConc == Init /\ [][NextConc]_vars

\* ------------------------------------------- insert_records on its own

\* the calls of insert_records: records, chunksize, start, stop, method, the
\* rows the table holds, and the chunk write that fails (0: none)
InsCalls ==
  {c \in [state : {"call"}, records : SeqsUpTo(Vals, MaxInsLen),
          chunksize : 0..MaxInsChunk, start : 0..MaxInsLen,
          stop : {NoStop} \cup 0..MaxInsLen, method : {"insert", "upsert"},
          rows : {<<>>, <<0>>}, failAt : 0..MaxInsLen,
          failKind : {"BrokenPipe", "Other"}, result : {NoResult}] :
     /\ c.failAt <= Len(chunk(c.records, c.chunksize, c.start, c.stop))
     /\ c.failAt = 0 => c.failKind = "Other"}

InitInsert ==
  /\ filestore = [r \in Resources |-> 0]
  /\ hash_package = FALSE
  /\ hash_resource = FALSE
  /\ hash_table = FALSE
  /\ ledger = <<>>
  /\ tables = [r \in Resources |-> NoTable]
  /\ files = [p \in Procs |-> {}]
  /\ run = [p \in Procs |-> IdleRun]
  /\ prev = [p \in Procs |-> NoPrev]
  /\ ins \in InsCalls
  /\ tab = NoTab
  /\ fpr = NoFpr
  /\ opt = NoOpt

\* CKAN.insert_records runs to its return or its raise
InsertRecords ==
  /\ ins.state = "call"
  /\ ins' = [ins EXCEPT
               !.state = "done",
               !.result = insert_records(ins.rows, ins.records, ins.chunksize,
                                         ins.start, ins.stop, ins.method,
                                         ins.failAt, ins.failKind)]
  /\ UNCHANGED <<remote, files, run, prev, tab, fpr, opt>>

NextInsert == InsertRecords

SpecInsert == InitInsert /\ [][NextInsert]_vars

\* ------------------------- delete_table and create_table on their own

\* the remote datastore_delete: the user is validated, a read-only resource
\* is refused unless force is set, and the table must be in the datastore
remote_delete(t, force) ==
  IF ~t.valid THEN "Invalid"
  ELSE IF t.readonly /\ ~force THEN "ReadOnly"
  ELSE IF ~t.table.exists THEN "NotFound"
  ELSE "ok"

\* the remote datastore_create: the resource must be in the filestore, the
\* user is validated, and a read-only resource is refused unless force is set
remote_create(t, force) ==
  IF ~t.resource THEN "NotFoundResource"
  ELSE IF ~t.valid THEN "Invalid"
  ELSE IF t.readonly /\ ~force THEN "ReadOnly"
  ELSE "ok"

\* a remote as a client finds it: whether it validates the user, whether the
\* resource is in the filestore and read-only, and the datastore table
TabStates ==
  [state : {"ready"}, valid : BOOLEAN, resource : BOOLEAN, readonly : BOOLEAN,
   table : {NoTable, Table(<<>>), Table(<<0>>)}, op : {"none"}, force : {TRUE},
   remote : {"none"}, result : {Return(None)}, before : {NoTable},
   ncalls : {0}]

InitTable ==
  /\ filestore = [r \in Resources |-> 0]
  /\ hash_package = FALSE
  /\ hash_resource = FALSE
  /\ hash_table = FALSE
  /\ ledger = <<>>
  /\ tables = [r \in Resources |-> NoTable]
  /\ files = [p \in Procs |-> {}]
  /\ run = [p \in Procs |-> IdleRun]
  /\ prev = [p \in Procs |-> NoPrev]
  /\ ins = NoIns
  /\ tab \in TabStates
  /\ fpr = NoFpr
  /\ opt = NoOpt

\* CKAN.delete_table(resource_id, force=) runs to its return or its raise
DeleteTable ==
  /\ tab.state = "ready" /\ tab.ncalls < MaxTabCalls
  /\ \E force \in BOOLEAN :
       LET rem == remote_delete(tab, force)
       IN  tab' = [tab EXCEPT !.op = "delete", !.force = force, !.remote = rem,
                              !.result = delete_table(rem), !.before = tab.table,
                              !.table = IF rem = "ok" THEN NoTable ELSE @,
                              !.ncalls = @ + 1]
  /\ UNCHANGED <<remote, files, run, prev, ins, fpr, opt>>

\* CKAN.create_table(resource_id, fields, force=) runs to its return or raise
CreateTable ==
  /\ tab.state = "ready" /\ tab.ncalls < MaxTabCalls
  /\ \E force \in BOOLEAN :
       LET rem == remote_create(tab, force)
       IN  tab' = [tab EXCEPT !.op = "create", !.force = force, !.remote = rem,
                              !.result = create_table(rem), !.before = tab.table,
                              !.table = IF rem = "ok" /\ ~@.exists THEN Table(<<>>)
                                        ELSE @,
                              !.ncalls = @ + 1]
  /\ UNCHANGED <<remote, files, run, prev, ins, fpr, opt>>

NextTable == DeleteTable \/ CreateTable

SpecTable == InitTable /\ [][NextTable]_vars

\* ------------------------------------------------ hash_file on its own

\* the read sizes: small ones, and the default of update
ReadSizes == (1..MaxRead) \cup {CHUNKSIZE_BYTES}

\* two files, the second a copy of the first or the first and one more byte,
\* and two read sizes
HashCalls ==
  UNION {{[state |-> "call", bytes |-> b, other |-> o, size1 |-> s1,
           size2 |-> s2, h1 |-> 0, h2 |-> 0, h3 |-> 0] :
            o \in {b, Append(b, 0)}, s1 \in ReadSizes, s2 \in ReadSizes} :
         b \in SeqsUpTo(Vals, MaxBytes)}

InitHash ==
  /\ filestore = [r \in Resources |-> 0]
  /\ hash_package = FALSE
  /\ hash_resource = FALSE
  /\ hash_table = FALSE
  /\ ledger = <<>>
  /\ tables = [r \in Resources |-> NoTable]
  /\ files = [p \in Procs |-> {}]
  /\ run = [p \in Procs |-> IdleRun]
  /\ prev = [p \in Procs |-> NoPrev]
  /\ ins = NoIns
  /\ tab = NoTab
  /\ fpr \in HashCalls
  /\ opt = NoOpt

\* tup.hash_file(filepath, chunksize=) of the first file with either read
\* size and of the second file with the second read size
HashFile ==
  /\ fpr.state = "call"
  /\ fpr' = [fpr EXCEPT !.state = "done",
                        !.h1 = hash_file(fpr.bytes, fpr.size1),
                        !.h2 = hash_file(fpr.bytes, fpr.size2),
                        !.h3 = hash_file(fpr.other, fpr.size2)]
  /\ UNCHANGED <<remote, files, run, prev, ins, tab, opt>>

NextHash == HashFile

SpecHash == InitHash /\ [][NextHash]_vars

\* ------------------------------------- the byte chunk size of update

\* the options that carry a byte chunk size: the one the command declares
\* and the one update reads
OptionKeys == {"chunksize_bytes", "chunk_bytes"}

\* the keyword arguments of update, as far as they are one of these options
KwargsSets == UNION {[K -> ReadSizes] : K \in SUBSET OptionKeys}

\* kwargs.get(key, default)
kwargs_get(kwargs, key, default) ==
  IF key \in DOMAIN kwargs THEN kwargs[key] ELSE default

\* chunk_bytes = kwargs.get('chunk_bytes', api.CHUNKSIZE_BYTES)
chunk_bytes(kwargs) == kwargs_get(kwargs, "chunk_bytes", CHUNKSIZE_BYTES)

InitOptions ==
  /\ filestore = [r \in Resources |-> 0]
  /\ hash_package = FALSE
  /\ hash_resource = FALSE
  /\ hash_table = FALSE
  /\ ledger = <<>>
  /\ tables = [r \in Resources |-> NoTable]
  /\ files = [p \in Procs |-> {}]
  /\ run = [p \in Procs |-> IdleRun]
  /\ prev = [p \in Procs |-> NoPrev]
  /\ ins = NoIns
  /\ tab = NoTab
  /\ fpr = NoFpr
  /\ opt \in [state : {"call"}, kwargs : KwargsSets,
               bytes : SeqsUpTo(Vals, MaxBytes), write_size : {0},
               hash_size : {0}, new_hash : {0}]

\* update up to new_hash: write_kwargs and hash_kwargs get chunk_bytes, the
\* download is written and the file is hashed with it
UpdateChunkSizes ==
  /\ opt.state = "call"
  /\ opt' = [opt EXCEPT !.state = "done",
                        !.write_size = chunk_bytes(opt.kwargs),
                        !.hash_size = chunk_bytes(opt.kwargs),
                        !.new_hash = hash_file(opt.bytes, chunk_bytes(opt.kwargs))]
  /\ UNCHANGED <<remote, files, run, prev, ins, tab, fpr>>

NextOptions == UpdateChunkSizes

SpecOptions == InitOptions /\ [][NextOptions]_vars

\* ------------------------------------------------------------ properties

NotFoundItems == {"package", "resource", "datastore"}

\* get_hash as a fresh client would answer it now
LookupNow(resource_id) ==
  get_hash(ckan_init(hash_package, hash_resource), hash_table, ledger, resource_id)

\* the positions of the hash table rows of a resource
Entries(resource_id) ==
  {i \in 1..Len(ledger) : ledger[i].datastore_id = resource_id}

\* C1: update_hash_table is executed only after update_datastore of the same
\* run returned a true value; while the synchronization has not run, or when
\* it raised or returned a false value, the run has written no ledger entry.
C1_RecordAfterSync ==
  \A p \in Procs :
    LET r == run[p]
    IN  /\ r.nrec > 0 => (r.nsync = 1 /\ r.updated # 0 /\ r.syncexc = "none")
        /\ (r.pc # "idle" /\ (r.nsync = 0 \/ r.updated = 0 \/ r.syncexc # "none"))
             => (r.nrec = 0 /\ ledger = r.ledger0)

\* C1 witness: a run recorded its hash after a successful synchronization
C1_Witness ==
  \E p \in Procs :
    /\ run[p].pc = "done" /\ run[p].nrec = 1 /\ run[p].updated # 0
    /\ ledger # run[p].ledger0

\* C2: when the lookup returned a hash equal to the new one and force is not
\* set, update ends with sys.exit(0) without calling update_datastore or
\* update_hash_table, and the table and the ledger are as the run found them.
C2_UnchangedSkips ==
  \A p \in Procs :
    LET r == run[p]
    IN  (r.new_hash # None /\ r.old_hash = r.new_hash /\ ~r.force)
          => /\ r.pc \in {"finally", "done"}
             /\ r.outcome = "exit0"
             /\ r.nsync = 0 /\ r.nrec = 0 /\ r.nwrites = 0
             /\ ledger = r.ledger0
             /\ tables[r.resource_id] = r.table0

\* C2 witness: an unforced run found the stored hash equal and has ended
C2_Witness ==
  \E p \in Procs :
    /\ run[p].pc = "done" /\ ~run[p].force
    /\ run[p].new_hash # None /\ run[p].old_hash = run[p].new_hash
    /\ run[p].outcome = "exit0"

\* C3: a run without force that follows a successful run on the same resource
\* with the same content calls update_datastore zero times, writes zero rows
\* and leaves the ledger as the first run left it.
C3_SecondRunSkips ==
  \A p \in Procs :
    LET r == run[p]
    IN  (prev[p].success /\ prev[p].resource_id = r.resource_id
         /\ r.ver # 0 /\ prev[p].ver = r.ver /\ ~r.force)
          => /\ r.nsync = 0 /\ r.nwrites = 0 /\ r.nrec = 0
             /\ r.pc \notin {"sync", "record"}
             /\ ledger = prev[p].ledger

\* C3 witness: the second of two runs on the same content has ended, skipped
C3_Witness ==
  \E p \in Procs :
    /\ prev[p].success /\ prev[p].resource_id = run[p].resource_id
    /\ run[p].ver # 0 /\ prev[p].ver = run[p].ver /\ ~run[p].force
    /\ run[p].pc = "done" /\ run[p].outcome = "exit0"
    /\ Entries(run[p].resource_id) # {}

C5_TempFilesRemoved ==
  \A p \in Procs : run[p].pc = "done" => files[p] = {}

\* C6: get_hash raises NotFound tagged package, resource or datastore exactly
\* when that layer is the first one missing, returns None without raising
\* exactly when the hash table exists and holds no row of the resource, and
\* returns a hash only when a row of the resource holds it.
C6_GetHashOutcomes ==
  [][\A p \in Procs :
       (run[p].pc \in {"lookup", "lookup2"} /\ run'[p].nlookup = run[p].nlookup + 1
        /\ ~run'[p].envfail)
         => LET kind == IF run[p].pc = "lookup" THEN run'[p].first ELSE run'[p].second
                rid == run[p].resource_id
                raised == IF run[p].pc = "lookup"
                          THEN run'[p].pc \in {"package", "resource", "table"}
                          ELSE run'[p].outcome = "raised"
            IN  /\ kind = "package" <=> ~hash_package
                /\ kind = "resource" <=> (hash_package /\ ~hash_resource)
                /\ kind = "datastore" <=> (hash_resource /\ ~hash_table)
                /\ kind = "absent" <=> (hash_table /\ Entries(rid) = {})
                /\ kind = "hash" <=> (hash_table /\ Entries(rid) # {})
                /\ kind \in NotFoundItems <=> raised
                /\ kind = "absent" => (run'[p].pc = "hash" /\ run'[p].old_hash = None)
                /\ kind = "hash" =>
                     /\ run'[p].pc = "hash" /\ run'[p].old_hash # None
                     /\ \E i \in Entries(rid) : ledger[i].hash = run'[p].old_hash
    ]_vars

\* C6 witness: a run whose first lookup raised NotFound for the datastore
\* table and whose second lookup returned None for the missing entry
C6_Witness ==
  \E p \in Procs :
    /\ run[p].first = "datastore" /\ run[p].second = "absent"
    /\ run[p].pc = "hash" /\ run[p].old_hash = None

\* C7: a first lookup that raises NotFound starts provisioning and the run
\* goes on to its second lookup unless a remote call fails; a lookup that
\* returns None starts no provisioning and takes the changed path;
\* provisioning starts at most once, and only after a NotFound.
C7_ProvisionAndContinue ==
  \A p \in Procs :
    LET r == run[p]
    IN  /\ r.nprov <= 1
        /\ r.nprov = 1 <=> r.first \in NotFoundItems
        /\ r.first = "absent" => (r.nprov = 0 /\ (r.new_hash # None => r.changed))
        /\ (r.first \in NotFoundItems /\ r.pc = "done" /\ ~r.envfail)
             => r.nlookup = 2

\* C8: when the lookup returned None or a hash other than the new one, with
\* or without force, update calls update_datastore and, when it succeeds,
\* calls update_hash_table; after the run returned, a lookup of the resource
\* returns the new hash.
C8_ChangedRecords ==
  \A p \in Procs :
    LET r == run[p]
    IN  (r.new_hash # None /\ (r.old_hash = None \/ r.old_hash # r.new_hash))
          => /\ r.changed
             /\ r.outcome # "exit0"
             /\ r.pc \in {"sync", "record", "finally", "done"}
             /\ r.pc # "sync" => r.nsync = 1
             /\ (r.pc \in {"finally", "done"} /\ r.updated # 0) => r.nrec = 1
             /\ (r.pc \in {"finally", "done"} /\ r.outcome = "returned")
                  => /\ r.nrec = 1
                     /\ LookupNow(r.resource_id) = Return(r.new_hash)
                     /\ Cardinality(Entries(r.resource_id)) = 1

\* C8 witness: a run that found another hash stored has recorded the new one
C8_Witness ==
  \E p \in Procs :
    /\ run[p].pc = "done" /\ run[p].outcome = "returned"
    /\ run[p].old_hash # None /\ run[p].old_hash # run[p].new_hash
    /\ run[p].nrec = 1 /\ ~run[p].force

\* C9: when a chunk write fails with Broken pipe, insert_records makes no
\* further call of datastore_upsert (no retry, no later chunk), returns 0
\* with the chunksize message instead of raising, and the run of update ends
\* with exit status 1 without a ledger write.
C9_BrokenPipeAborts ==
  \A p \in Procs :
    LET r == run[p]
    IN  (r.nsync = 1 /\ r.failKind = "BrokenPipe")
          => /\ r.nwrites = r.failAt
             /\ r.updated = 0 /\ r.diag /\ r.syncexc = "none"
             /\ r.nrec = 0 /\ ledger = r.ledger0
             /\ r.pc \in {"record", "finally", "done"}
             /\ r.pc # "record" => r.outcome = "exit1"

\* C9 witness: the second chunk write of a run failed with Broken pipe and
\* the run has ended
C9_Witness ==
  \E p \in Procs :
    /\ run[p].pc = "done" /\ run[p].failKind = "BrokenPipe" /\ run[p].failAt = 2
    /\ run[p].nwrites = 2 /\ run[p].outcome = "exit1"
    /\ Len(tables[run[p].resource_id].rows) = 1

\* the number of rows in a sequence of chunks
RECURSIVE RowsIn(_)
RowsIn(chunks) ==
  IF chunks = <<>> THEN 0 ELSE Len(chunks[1]) + RowsIn(Tail(chunks))

\* C10: when every chunk write succeeds, insert_records returns the number
\* of rows it passed to datastore_upsert over all chunks.
C10_ReturnsRowCount ==
  (ins.state = "done" /\ ins.failAt = 0)
    => ins.result.ret = RowsIn(ins.result.sent)

\* the records of a sequence of chunks, in order
RECURSIVE Concat(_)
Concat(chunks) ==
  IF chunks = <<>> THEN <<>> ELSE chunks[1] \o Concat(Tail(chunks))

\* ceil(n / k) for k > 0
CeilDiv(n, k) == (n + k - 1) \div k

\* C11: when no chunk write fails, insert_records calls datastore_upsert once
\* per chunk, in order: the chunks sent, concatenated, are the records S of
\* the range, each once; with a positive chunksize k there are ceil(len(S)/k)
\* calls, every chunk but the last holds k records and none is empty; with
\* chunksize 0 (the default) there is one call and it sends all of S.
C11_ChunksSentInOrder ==
  (ins.state = "done" /\ ins.failAt = 0)
    => LET S == Slice(ins.records, ins.start, ins.stop)
           k == ins.chunksize
           sent == ins.result.sent
       IN  /\ ins.result.calls = Len(sent)
           /\ Concat(sent) = S
           /\ k > 0 => /\ Len(sent) = CeilDiv(Len(S), k)
                       /\ \A i \in 1..(Len(sent) - 1) : Len(sent[i]) = k
                       /\ \A i \in 1..Len(sent) : sent[i] # <<>>
           /\ k = 0 => sent = <<S>>

\* C11 witness: three records were sent whole in two chunks of chunksize 2
C11_Witness ==
  /\ ins.state = "done" /\ ins.failAt = 0 /\ ins.chunksize = 2
  /\ ins.start = 0 /\ ins.stop = NoStop /\ Len(ins.records) = 3
  /\ ins.result.calls = 2
  /\ ins.result.sent = <<SubSeq(ins.records, 1, 2), SubSeq(ins.records, 3, 3)>>

\* C12: update_datastore selects the write strategy from the primary key.
\* With a primary key the records are upserted into the table as the run
\* found it: the table is not deleted, every key it held is still there, and
\* after a successful synchronization it holds the old rows with the
\* records upserted by key.  Without a primary key the table is deleted and
\* created again before the first insert, so after a successful
\* synchronization it holds exactly the records of the downloaded file.
C12_WriteStrategy ==
  \A p \in Procs :
    LET r == run[p]
        tbl == tables[r.resource_id]
        ok == r.nsync = 1 /\ r.syncexc = "none" /\ r.updated # 0
    IN  /\ (r.nsync = 1 /\ r.primary_key /\ r.table0.exists)
             => /\ tbl.exists
                /\ \A i \in 1..Len(r.table0.rows) :
                     \E j \in 1..Len(tbl.rows) :
                       Key(tbl.rows[j]) = Key(r.table0.rows[i])
        /\ (ok /\ r.primary_key)
             => tbl = Table(upsert_rows(r.table0.rows, File(r.ver)))
        /\ (ok /\ ~r.primary_key) => tbl = Table(File(r.ver))

\* C12 witness: a run without primary key replaced a table of more rows by
\* the records of the file
C12_Witness ==
  \E p \in Procs :
    /\ run[p].pc = "done" /\ run[p].outcome = "returned" /\ ~run[p].primary_key
    /\ run[p].nsync = 1 /\ run[p].updated # 0
    /\ run[p].table0.exists /\ Len(run[p].table0.rows) > Len(File(run[p].ver))
    /\ tables[run[p].resource_id] = Table(File(run[p].ver))

\* C13: the hash table holds at most one row per resource id, whatever runs
\* of update came before; a run that called update_hash_table overwrote the
\* row of its resource when there was one and added one row otherwise, and
\* left the rows of the other resources as they were.
C13_OneEntryPerResource ==
  /\ \A rid \in Resources \cup {OtherResource} : Cardinality(Entries(rid)) <= 1
  /\ \A p \in Procs :
       LET r == run[p]
           before == {i \in 1..Len(r.ledger0) :
                        r.ledger0[i].datastore_id = r.resource_id}
       IN  (r.nrec = 1 /\ r.outcome = "returned")
             => /\ Len(ledger) = Len(r.ledger0) + (IF before = {} THEN 1 ELSE 0)
                /\ \A i \in 1..Len(r.ledger0) :
                     IF i \in before THEN ledger[i].hash = r.new_hash
                     ELSE ledger[i] = r.ledger0[i]

\* C13 witness: a run overwrote the row an earlier run had written, beside
\* the row of another resource
C13_Witness ==
  \E p \in Procs :
    /\ run[p].pc = "done" /\ run[p].nrec = 1 /\ run[p].outcome = "returned"
    /\ prev[p].success /\ prev[p].ver # run[p].ver
    /\ Len(run[p].ledger0) = 2 /\ Len(ledger) = 2 /\ ledger # run[p].ledger0
    /\ Cardinality(Entries(run[p].resource_id)) = 1
    /\ Cardinality(Entries(OtherResource)) = 1

\* C14: delete_table returns None without raising when the remote delete
\* reports the table not found and when it refuses with the read-only
\* ValidationError, and the table is then as it was; when the remote delete
\* succeeds delete_table returns the remote's result.
C14_DeleteSkips ==
  tab.op = "delete"
    => /\ tab.remote = "NotFound" => (tab.result = Return(None) /\ tab.table = tab.before)
       /\ tab.remote = "ReadOnly" => (tab.result = Return(None) /\ tab.table = tab.before)
       /\ tab.remote = "ok" => (tab.result = Return(1) /\ tab.result.value # None)

\* C14 witness: the delete of a read-only table without force returned None
\* and left the table and its row
C14_Witness ==
  /\ tab.op = "delete" /\ tab.remote = "ReadOnly" /\ ~tab.force /\ tab.readonly
  /\ tab.result = Return(None) /\ tab.table = Table(<<0>>)

\* C15: when the remote delete fails with a ValidationError that is not the
\* read-only one, delete_table raises that ValidationError.
C15_DeleteRaisesValidationError ==
  (tab.op = "delete" /\ tab.remote = "Invalid")
    => tab.result = Raise("ValidationError", "Invalid")

\* C16: create_table raises NotFound when the remote create fails with the
\* ValidationError 'Not found: Resource', raises every other ValidationError
\* again as the remote gave it, and returns the remote's result on success.
C16_CreateOutcomes ==
  tab.op = "create"
    => /\ tab.remote = "NotFoundResource" => tab.result = Raise("NotFound", "none")
       /\ tab.remote \in {"Invalid", "ReadOnly"}
            => tab.result = Raise("ValidationError", tab.remote)
       /\ tab.remote = "ok" => (tab.result = Return(1) /\ tab.result.value # None)
       /\ tab.remote \in {"NotFoundResource", "Invalid", "ReadOnly", "ok"}

\* C16 witness: a create refused for a read-only resource raised the
\* ValidationError of the remote
C16_Witness ==
  /\ tab.op = "create" /\ tab.remote = "ReadOnly" /\ tab.resource
  /\ tab.result = Raise("ValidationError", "ReadOnly") /\ tab.table = tab.before

\* C17: when a chunk write fails with a ConnectionError that is not Broken
\* pipe, insert_records raises it: it returns no value, prints no chunksize
\* message, and the failed call of datastore_upsert is its last, so the
\* chunks after the failed one are not sent.
C17_OtherErrorRaised ==
  (ins.state = "done" /\ ins.failAt > 0 /\ ins.failKind = "Other")
    => LET chunks == chunk(ins.records, ins.chunksize, ins.start, ins.stop)
       IN  /\ ins.result.out = "raise"
           /\ ins.result.ret = 0 /\ ~ins.result.diag
           /\ ins.result.calls = ins.failAt
           /\ ins.result.sent = SubSeq(chunks, 1, ins.failAt - 1)

\* C17 witness: the second of three chunk writes failed and the call raised
\* with one chunk written
C17_Witness ==
  /\ ins.state = "done" /\ ins.failAt = 2 /\ ins.failKind = "Other"
  /\ Len(chunk(ins.records, ins.chunksize, ins.start, ins.stop)) = 3
  /\ ins.result.out = "raise" /\ ins.result.calls = 2
  /\ Len(ins.result.sent) = 1

\* C18: the hash of a file depends on its bytes only: hash_file gives the
\* same value for the same bytes with any two positive read sizes, and for
\* two files of the same bytes.
C18_HashOfContentOnly ==
  fpr.state = "done"
    => /\ fpr.h1 = fpr.h2
       /\ fpr.other = fpr.bytes => fpr.h3 = fpr.h1

\* C18 witness: a file of three bytes and its copy were hashed with reads of
\* one byte and of two bytes, to the same value
C18_Witness ==
  /\ fpr.state = "done" /\ Len(fpr.bytes) = 3 /\ fpr.other = fpr.bytes
  /\ fpr.size1 = 1 /\ fpr.size2 = 2
  /\ fpr.h1 = fpr.h2 /\ fpr.h3 = fpr.h1 /\ fpr.h1 # None

\* the layers the NotFound handler has to create, in order, by the item of
\* the NotFound
MissingLayers(item) ==
  IF item = "package" THEN <<"package", "resource", "table">>
  ELSE IF item = "resource" THEN <<"resource", "table">>
  ELSE <<"table">>

\* C19: after a NotFound of the first lookup update creates the missing
\* layers and no other, in the order package, resource, table, and then
\* looks up once more, unless a remote call fails; a run makes at most two
\* lookups, and a NotFound of the second lookup ends the run with the
\* exception, without a synchronization and without a ledger write.
C19_ProvisionsMissingLayers ==
  \A p \in Procs :
    LET r == run[p]
    IN  /\ r.nlookup <= 2
        /\ r.first \notin NotFoundItems => (r.prov = <<>> /\ r.nlookup <= 1)
        /\ r.first \in NotFoundItems
             => /\ Len(r.prov) <= Len(MissingLayers(r.first))
                /\ r.prov = SubSeq(MissingLayers(r.first), 1, Len(r.prov))
                /\ (~r.envfail /\ r.pc \notin {"package", "resource", "table"})
                     => r.prov = MissingLayers(r.first)
                /\ (~r.envfail /\ r.pc \notin {"package", "resource", "table", "lookup2"})
                     => r.nlookup = 2
        /\ r.second \in NotFoundItems
             => (r.outcome = "raised" /\ r.nsync = 0 /\ r.nrec = 0 /\ r.nlookup = 2)

\* the steps of the try block of update: client, fetch, temporary file, write
FetchPhase == {"init", "fetch", "tempfile", "write"}

\* C20: a run that fails in the fetch phase (the client cannot be built,
\* the resource is not found, the download or the write of the file fails)
\* ends with exit status 1 and has made no lookup, provisioned nothing,
\* synchronized no table and written no ledger entry; for a resource that is
\* not in the filestore fetch_resource raises before it requests a download
\* (the filestore does not change before the run is over).
C20_FetchFailureExits ==
  \A p \in Procs :
    LET r == run[p]
        nothing == /\ r.nlookup = 0 /\ r.nprov = 0 /\ r.nsync = 0 /\ r.nrec = 0
                   /\ r.nwrites = 0 /\ r.prov = <<>>
                   /\ ledger = r.ledger0 /\ tables[r.resource_id] = r.table0
    IN  /\ r.pc \in FetchPhase => nothing
        /\ r.leftat \in FetchPhase
             => (r.pc \in {"finally", "done"} /\ r.outcome = "exit1" /\ nothing)
        /\ (r.pc \notin {"idle", "init", "fetch", "done"} /\ r.leftat # "init"
            /\ filestore[r.resource_id] = 0)
             => (r.leftat = "fetch" /\ r.nget = 0 /\ "fetch" \notin files[p])

\* C20 witness: the run on a resource that is not in the filestore has ended
\* with exit status 1 at the fetch, without a download
C20_Witness ==
  \E p \in Procs :
    /\ run[p].pc = "done" /\ run[p].leftat = "fetch" /\ run[p].outcome = "exit1"
    /\ filestore[run[p].resource_id] = 0 /\ run[p].nget = 0
    /\ run[p].nlookup = 0 /\ hash_table /\ ledger # <<>>

\* C21: the chunk size update writes the download with and hashes the file
\* with is the value of the chunksize_bytes option when the option is
\* supplied, and the default CHUNKSIZE_BYTES only when it is not.
C21_OptionChunkSizeUsed ==
  opt.state = "done"
    => LET want == kwargs_get(opt.kwargs, "chunksize_bytes", CHUNKSIZE_BYTES)
       IN  opt.write_size = want /\ opt.hash_size = want

\* C22: with two runs of update on the same resource under way at a time,
\* in every interleaving the hash table holds at most one row of the
\* resource, and the table changes only by a run's update_hash_table, which
\* leaves the row of the resource holding the hash that run passed: the row
\* holds the hash of the run that recorded last.
C22_LastWriterWins ==
  /\ [](\A rid \in Resources \cup {OtherResource} : Cardinality(Entries(rid)) <= 1)
  /\ [][/\ \A p \in Procs :
            (/\ run[p].pc = "record" /\ run'[p].nrec = run[p].nrec + 1
             /\ run'[p].outcome = "returned")
              => /\ \E i \in 1..Len(ledger') :
                      ledger'[i] = [datastore_id |-> run[p].resource_id,
                                    hash |-> run[p].new_hash]
                 /\ \A i \in 1..Len(ledger) :
                      ledger[i].datastore_id # run[p].resource_id
                        => ledger'[i] = ledger[i]
                 /\ Len(ledger') <= Len(ledger) + 1
        /\ ledger' # ledger
             => \E p \in Procs :
                  /\ run[p].pc = "record" /\ run'[p].nrec = run[p].nrec + 1
                  /\ run'[p].outcome = "returned"
      ]_vars

\* C22 witness: two runs at a time fetched different contents and both
\* recorded; the run that fetched the older content recorded last, and the
\* one row of the resource holds its hash
C22_Witness ==
  /\ run[1].pc = "done" /\ run[2].pc = "done"
  /\ run[1].nrec = 1 /\ run[2].nrec = 1
  /\ run[1].outcome = "returned" /\ run[2].outcome = "returned"
  /\ run[1].ledger0 = run[2].ledger0
  /\ run[1].new_hash # run[2].new_hash
  /\ filestore[run[1].resource_id] = run[2].ver
  /\ Cardinality(Entries(run[1].resource_id)) = 1
  /\ LookupNow(run[1].resource_id) = Return(run[1].new_hash)

\* the table holds every record of the file of version v
HoldsRows(tbl, v) ==
  /\ tbl.exists
  /\ \A j \in 1..v : \E i \in 1..Len(tbl.rows) : tbl.rows[i] = File(v)[j]

\* C23: with runs of update one after the other, forced or not, whatever
\* synchronization failed or stopped partway, whenever no run is under way
\* and the hash table row of a resource holds the hash of a content, the
\* table of the resource holds all the records of that content; so the table
\* a run that skips leaves in place is complete.
C23_LedgerImpliesTable ==
  (\A p \in Procs : run[p].pc \in {"idle", "done"})
    => \A rid \in Resources : \A v \in 1..MaxVer :
         LookupNow(rid) = Return(hash_file(File(v), CHUNKSIZE_BYTES))
           => HoldsRows(tables[rid], v)

\* a step of the quiet period: the content of the resource is there and
\* stays as it is, no remote operation fails, and the run is not forced
QuietStep ==
  /\ filestore' = filestore
  /\ \A rid \in Resources : filestore[rid] # 0
  /\ ~run'[1].envfail
  /\ ~run'[1].force

\* the run of the process has ended unchanged: sys.exit(0) with no
\* synchronization, no row written and no ledger write
EndedUnchanged(p) ==
  /\ run[p].outcome = "exit0"
  /\ run[p].nsync = 0 /\ run[p].nwrites = 0 /\ run[p].nrec = 0
  /\ ledger = run[p].ledger0 /\ tables[run[p].resource_id] = run[p].table0

\* C24: when from some point on the content does not change, every remote
\* operation succeeds and the runs are not forced, then a run ends unchanged
\* and from some point on every run that ends, ends unchanged.
C24_EventuallyUnchanged ==
  (<>[][QuietStep]_vars)
    => /\ []<>(run[1].pc = "done" /\ EndedUnchanged(1))
       /\ <>[](run[1].pc = "done" => EndedUnchanged(1))

RECURSIVE WriteChunks(_, _, _)
WriteChunks(rows, chunks, method) ==
  IF chunks = <<>> THEN rows
  ELSE WriteChunks(datastore_upsert(rows, chunks[1], method), Tail(chunks),
                   method)

\* C26: insert_records does not roll back.  When the write of chunk i fails,
\* with Broken pipe or with any other error, the chunks written are exactly
\* chunks 1..i-1, in order, the failed call being the last; chunk i and the
\* chunks after it are not written, and the table holds the rows it had
\* with chunks 1..i-1 written to them when insert_records returns or raises.
C26_NoRollback ==
  (ins.state = "done" /\ ins.failAt > 0)
    => LET chunks == chunk(ins.records, ins.chunksize, ins.start, ins.stop)
           before == SubSeq(chunks, 1, ins.failAt - 1)
           res == ins.result
       IN  /\ res.out \in {"return", "raise"}
           /\ res.calls = ins.failAt
           /\ res.sent = before
           /\ res.rows = WriteChunks(ins.rows, before, ins.method)
           /\ ins.method = "insert" => res.rows = ins.rows \o Concat(before)
           /\ res.count = insert_count0 + RowsIn(before)

\* C26 witness: the third of three chunk writes failed with Broken pipe and
\* the table holds its old row and the two rows inserted before
C26_Witness ==
  /\ ins.state = "done" /\ ins.failAt = 3 /\ ins.failKind = "BrokenPipe"
  /\ ins.method = "insert" /\ ins.rows = <<0>>
  /\ Len(chunk(ins.records, ins.chunksize, ins.start, ins.stop)) = 3
  /\ ins.result.out = "return" /\ Len(ins.result.sent) = 2
  /\ Len(ins.result.rows) = 3

====
